---------------------------- MODULE Spec2Model ----------------------------
(***************************************************************************)
(* A model of papergrid's string utilities (src/papergrid/src/util.rs,     *)
(* built without the "color" feature) and of the border-line composition   *)
(* that tests/style_test.rs exercises.                                     *)
(*                                                                         *)
(* A Rust &str / String is modelled as the sequence of its UTF-8 bytes.    *)
(* Byte offsets are 0-based as in Rust: the byte at offset k of b is       *)
(* b[k + 1].  A char is the tuple of the bytes that encode it.             *)
(***************************************************************************)
EXTENDS Integers, Sequences, FiniteSets, TLC

(***************************************************************************)
(* Bounds of the model.                                                    *)
(***************************************************************************)
\* longest input text, in chars
MaxLen == 3
\* largest width handed to cut_str / largest n handed to replace_tab
MaxNum == 5
\* most data rows of a rendered grid
MaxRows == 3

(***************************************************************************)
(* Characters.                                                             *)
(***************************************************************************)
\* '\t'
TAB == 9
\* '\n'
NEWLINE == 10
\* ' '
SPACE == 32
\* '\\'
BACKSLASH == 92
\* 'a', an ordinary ASCII letter
LETTER == 97

\* U+FFFD, cut_str's placeholder
REPLACEMENT == <<239, 191, 189>>
\* U+1F633, a glyph two columns wide ("😳" of strip_test)
WIDE == <<240, 159, 152, 179>>
\* U+FE0F, variation selector 16: no columns at all ("🏳\u{fe0f}" of strip_test)
ZEROWIDTH == <<239, 184, 143>>

\* the chars input texts are made of
Alphabet == {<<TAB>>, <<NEWLINE>>, <<BACKSLASH>>, <<LETTER>>, WIDE, ZEROWIDTH}

RECURSIVE Concat(_)
\* the bytes of a sequence of chars
Concat(cs) == IF cs = <<>> THEN <<>> ELSE Head(cs) \o Concat(Tail(cs))

\* every text of at most MaxLen chars of the alphabet, as UTF-8 bytes
Texts == UNION {{Concat(cs) : cs \in [1..k -> Alphabet]} : k \in 0..MaxLen}

(***************************************************************************)
(* UTF-8 and str primitives of the standard library.                       *)
(***************************************************************************)
\* bytes [from, to) of b
Slice(b, from, to) == SubSeq(b, from + 1, to)

\* a continuation byte 10xxxxxx
IsContinuation(x) == x \in 128..191

\* str::is_char_boundary
IsCharBoundary(b, idx) ==
    \/ idx = 0
    \/ idx = Len(b)
    \/ idx > 0 /\ idx < Len(b) /\ ~IsContinuation(b[idx + 1])

\* the length of the char whose lead byte is x (char::len_utf8 of the decoded char)
LenUtf8(x) == IF x < 128 THEN 1 ELSE IF x < 224 THEN 2 ELSE IF x < 240 THEN 3 ELSE 4

\* the char at byte offset p of b (Chars::next)
CharAt(b, p) == Slice(b, p, p + LenUtf8(b[p + 1]))

RECURSIVE CharsFrom(_, _)
CharsFrom(b, p) == IF p >= Len(b) THEN <<>> ELSE <<CharAt(b, p)>> \o CharsFrom(b, p + LenUtf8(b[p + 1]))

\* str::chars, collected
Chars(b) == CharsFrom(b, 0)

\* bytecount::count
RECURSIVE ByteCount(_, _)
ByteCount(b, x) ==
    IF b = <<>> THEN 0 ELSE (IF Head(b) = x THEN 1 ELSE 0) + ByteCount(Tail(b), x)

\* str::find of a one-byte char: the offset of its first occurrence in b, or -1 (None)
Find(b, x) ==
    IF \E k \in 1..Len(b) : b[k] = x
    THEN (CHOOSE k \in 1..Len(b) : b[k] = x /\ \A j \in 1..(k - 1) : b[j] # x) - 1
    ELSE -1

\* " ".repeat(n) and the like
Repeat(c, n) == Concat([k \in 1..n |-> c])

(***************************************************************************)
(* unicode_width.                                                          *)
(***************************************************************************)
\* UnicodeWidthChar::width(c).unwrap_or(0): control chars have no width (None)
CharWidth(c) ==
    IF c = WIDE THEN 2
    ELSE IF c = ZEROWIDTH THEN 0
    ELSE IF Len(c) = 1 /\ (c[1] < 32 \/ c[1] = 127) THEN 0
    ELSE 1

RECURSIVE SumWidth(_)
SumWidth(cs) == IF cs = <<>> THEN 0 ELSE CharWidth(Head(cs)) + SumWidth(Tail(cs))

\* string_width: UnicodeWidthStr::width, the sum of the chars' widths
string_width(b) == SumWidth(Chars(b))


(***************************************************************************)
(* State.                                                                  *)
(***************************************************************************)
VARIABLES
    text,      \* the &str handed to the operation
    num,       \* its usize argument: width of cut_str, n / tab_width otherwise
    pc,        \* where the running operation stands
    it,        \* string_split_at_length: byte offset of the s.chars() iterator
    length,    \* string_split_at_length: length
    i,         \* string_split_at_length: i
    ret,       \* string_split_at_length: the returned triple
    cell,      \* replace_tab_range: the String being edited
    skip,      \* replace_tab_range: skip
    out,       \* the text an operation returned
    outn,      \* the number an operation returned
    outw,      \* string_width of the expanded text, measured after replace_tab
    lines,     \* the segments get_lines yielded, collected
    style,     \* the Style being composed
    rows,      \* number of data rows of the grid (the header row not counted)
    lastOp,    \* the Style setter applied last
    before,    \* the table rendered before that setter
    rendered   \* the table rendered with the current style

strVars == <<text, num, pc, it, length, i, ret, cell, skip, out, outn, outw, lines>>
styleVars == <<style, rows, lastOp, before, rendered>>
vars == <<text, num, pc, it, length, i, ret, cell, skip, out, outn, outw, lines,
          style, rows, lastOp, before, rendered>>

(***************************************************************************)
(* cut_str and string_split_at_length.                                     *)
(***************************************************************************)
\* SplitIter without `if i + c_width > width`: the char that does not fit is kept
SplitIter_NoOverflowCheck(s, width, it0, length0, i0) ==
    IF it0 >= Len(s)
    THEN [done |-> TRUE, ret |-> <<length0, 0, 0>>, it |-> it0, length |-> length0, i |-> i0]
    ELSE LET c == CharAt(s, it0)
             c_width == CharWidth(c)
         IN  IF i0 = width
             THEN [done |-> TRUE, ret |-> <<length0, 0, 0>>,
                   it |-> it0, length |-> length0, i |-> i0]
             ELSE [done |-> FALSE, ret |-> <<>>,
                   it |-> it0 + Len(c), length |-> length0 + Len(c), i |-> i0 + c_width]

\* SplitIter without `if i == width { break }`
SplitIter_NoBreak(s, width, it0, length0, i0) ==
    IF it0 >= Len(s)
    THEN [done |-> TRUE, ret |-> <<length0, 0, 0>>, it |-> it0, length |-> length0, i |-> i0]
    ELSE LET c == CharAt(s, it0)
             c_width == CharWidth(c)
         IN  IF i0 + c_width > width
             THEN [done |-> TRUE, ret |-> <<length0, width - i0, Len(c)>>,
                   it |-> it0, length |-> length0, i |-> i0]
             ELSE [done |-> FALSE, ret |-> <<>>,
                   it |-> it0 + Len(c), length |-> length0 + Len(c), i |-> i0 + c_width]

\* SplitIter with `let count = c_width`: one placeholder per column of the dropped char
SplitIter_CountCharWidth(s, width, it0, length0, i0) ==
    IF it0 >= Len(s)
    THEN [done |-> TRUE, ret |-> <<length0, 0, 0>>, it |-> it0, length |-> length0, i |-> i0]
    ELSE LET c == CharAt(s, it0)
             c_width == CharWidth(c)
         IN  IF i0 = width
             THEN [done |-> TRUE, ret |-> <<length0, 0, 0>>,
                   it |-> it0, length |-> length0, i |-> i0]
             ELSE IF i0 + c_width > width
             THEN [done |-> TRUE, ret |-> <<length0, c_width, Len(c)>>,
                   it |-> it0, length |-> length0, i |-> i0]
             ELSE [done |-> FALSE, ret |-> <<>>,
                   it |-> it0 + Len(c), length |-> length0 + Len(c), i |-> i0 + c_width]

\* SplitIter with `length += 1`: chars counted where bytes are meant
SplitIter_LengthInChars(s, width, it0, length0, i0) ==
    IF it0 >= Len(s)
    THEN [done |-> TRUE, ret |-> <<length0, 0, 0>>, it |-> it0, length |-> length0, i |-> i0]
    ELSE LET c == CharAt(s, it0)
             c_width == CharWidth(c)
         IN  IF i0 = width
             THEN [done |-> TRUE, ret |-> <<length0, 0, 0>>,
                   it |-> it0, length |-> length0, i |-> i0]
             ELSE IF i0 + c_width > width
             THEN [done |-> TRUE, ret |-> <<length0, width - i0, Len(c)>>,
                   it |-> it0, length |-> length0, i |-> i0]
             ELSE [done |-> FALSE, ret |-> <<>>,
                   it |-> it0 + Len(c), length |-> length0 + 1, i |-> i0 + c_width]

\* One pass of `for c in s.chars()` of string_split_at_length, from iterator
\* offset it0 with the locals length0 and i0.  done: the function returned,
\* with ret; otherwise the locals after the pass.  A negative count stands for
\* the usize underflow of `width - i`.
SplitIter(s, width, it0, length0, i0) ==
    IF it0 >= Len(s)
    THEN [done |-> TRUE, ret |-> <<length0, 0, 0>>, it |-> it0, length |-> length0, i |-> i0]
    ELSE LET c == CharAt(s, it0)
             c_width == CharWidth(c)
         IN  IF i0 = width
             THEN [done |-> TRUE, ret |-> <<length0, 0, 0>>,
                   it |-> it0, length |-> length0, i |-> i0]
             ELSE IF i0 + c_width > width
             THEN [done |-> TRUE, ret |-> <<length0, width - i0, Len(c)>>,
                   it |-> it0, length |-> length0, i |-> i0]
             ELSE [done |-> FALSE, ret |-> <<>>,
                   it |-> it0 + Len(c), length |-> length0 + Len(c), i |-> i0 + c_width]

\* &s[..length]: defined only when length is in range and on a char boundary
CanSliceTo(s, len) == len >= 0 /\ len <= Len(s) /\ IsCharBoundary(s, len)

\* the body of cut_str after string_split_at_length returned r; "panic" when
\* the slice or the subtraction would panic
CutResult(s, r) ==
    IF ~CanSliceTo(s, r[1]) \/ r[2] < 0
    THEN [panic |-> TRUE, buf |-> <<>>]
    ELSE [panic |-> FALSE, buf |-> Slice(s, 0, r[1]) \o Repeat(REPLACEMENT, r[2])]

\* cut_str(s, width) is called: string_split_at_length is entered
CutStart ==
    /\ pc = "idle"
    /\ \E s \in Texts, width \in 0..MaxNum : text' = s /\ num' = width
    /\ pc' = "split"
    /\ it' = 0 /\ length' = 0 /\ i' = 0
    /\ UNCHANGED <<ret, cell, skip, out, outn, outw>>
    /\ UNCHANGED lines
    /\ UNCHANGED styleVars

SplitLoop ==
    /\ pc = "split"
    /\ LET r == SplitIter(text, num, it, length, i)
       IN  /\ it' = r.it /\ length' = r.length /\ i' = r.i
           /\ ret' = r.ret
           /\ pc' = IF r.done THEN "split_ret" ELSE "split"
    /\ UNCHANGED <<text, num, cell, skip, out, outn, outw>>
    /\ UNCHANGED lines
    /\ UNCHANGED styleVars

CutFinish ==
    /\ pc = "split_ret"
    /\ LET r == CutResult(text, ret)
       IN  /\ out' = r.buf
           /\ pc' = IF r.panic THEN "cut_panic" ELSE "cut_done"
    /\ UNCHANGED <<text, num, it, length, i, ret, cell, skip, outn, outw>>
    /\ UNCHANGED lines
    /\ UNCHANGED styleVars

(***************************************************************************)
(* count_lines, count_tabs, string_width_tab.                              *)
(***************************************************************************)
\* count_lines with an empty text counted as no line
count_lines_EmptyIsZero(s) == IF s = <<>> THEN 0 ELSE ByteCount(s, NEWLINE) + 1

count_lines(s) == IF s = <<>> THEN 1 ELSE ByteCount(s, NEWLINE) + 1

count_tabs(s) == ByteCount(s, TAB)

string_width_tab(s, tab_width) == string_width(s) + count_tabs(s) * tab_width

CountLines ==
    /\ pc = "idle"
    /\ \E s \in Texts : text' = s /\ outn' = count_lines(s)
    /\ pc' = "count_done"
    /\ UNCHANGED <<num, it, length, i, ret, cell, skip, out, outw>>
    /\ UNCHANGED lines
    /\ UNCHANGED styleVars

(***************************************************************************)
(* get_lines.                                                              *)
(***************************************************************************)
RECURSIVE SplitOn(_, _)
\* str::split on a one-byte char, collected: the text before each match, and
\* the rest after the last one (empty when the text ends in a match)
SplitOn(b, x) ==
    LET f == Find(b, x)
    IN  IF f = -1 THEN <<b>>
        ELSE <<Slice(b, 0, f)>> \o SplitOn(Slice(b, f + 1, Len(b)), x)

\* get_lines with text.lines() for text.split('\n'): no segment after a final
\* line break, and none at all for the empty text
get_lines_Lines(s) ==
    LET segs == SplitOn(s, NEWLINE)
    IN  IF segs[Len(segs)] = <<>> THEN SubSeq(segs, 1, Len(segs) - 1) ELSE segs

\* get_lines, collected
get_lines(s) == SplitOn(s, NEWLINE)

\* the lines of a cell are produced after its height was taken with count_lines
GetLines ==
    /\ pc = "count_done"
    /\ lines' = get_lines(text)
    /\ pc' = "lines_done"
    /\ UNCHANGED <<text, num, it, length, i, ret, cell, skip, out, outn, outw>>
    /\ UNCHANGED styleVars

(***************************************************************************)
(* replace_tab and replace_tab_range.                                      *)
(***************************************************************************)
RECURSIVE ReplaceAll(_, _, _)
\* str::replace of a one-byte char by the text r
ReplaceAll(b, x, r) ==
    IF b = <<>> THEN <<>>
    ELSE (IF Head(b) = x THEN r ELSE <<Head(b)>>) \o ReplaceAll(Tail(b), x, r)

\* str::get(from..to): <<"Some", slice>> or <<"None">>
Get(b, from, to) ==
    IF from >= 0 /\ from <= to /\ to <= Len(b) /\ IsCharBoundary(b, from) /\ IsCharBoundary(b, to)
    THEN <<"Some", Slice(b, from, to)>>
    ELSE <<"None">>

\* String::remove(pos): the whole char at pos goes
Remove(b, pos) == Slice(b, 0, pos) \o Slice(b, pos + LenUtf8(b[pos + 1]), Len(b))

\* String::replace_range(pos..=pos, r)
ReplaceRange(b, pos, r) == Slice(b, 0, pos) \o r \o Slice(b, pos + 1, Len(b))

\* TabIter with `skip = pos + 1` after cell.remove(pos)
TabIter_SkipPastRemoved(c, n, skip0) ==
    IF ~(skip0 <= Len(c) /\ IsCharBoundary(c, skip0))
    THEN [panic |-> TRUE, exit |-> TRUE, cell |-> c, skip |-> skip0]
    ELSE LET f == Find(Slice(c, skip0, Len(c)), TAB)
         IN  IF f = -1
             THEN [panic |-> FALSE, exit |-> TRUE, cell |-> c, skip |-> skip0]
             ELSE LET pos == skip0 + f
                      is_escaped == pos > 0 /\ Get(c, pos - 1, pos) = <<"Some", <<BACKSLASH>>>>
                      c1 == IF is_escaped THEN c
                            ELSE IF n = 0 THEN Remove(c, pos)
                            ELSE ReplaceRange(c, pos, Repeat(<<SPACE>>, n))
                      skip1 == pos + 1
                  IN  [panic |-> FALSE,
                       exit |-> (c1 = <<>> \/ skip1 >= Len(c1)),
                       cell |-> c1, skip |-> skip1]

\* TabIter with `skip = pos` for an escaped tab
TabIter_EscapedNoAdvance(c, n, skip0) ==
    IF ~(skip0 <= Len(c) /\ IsCharBoundary(c, skip0))
    THEN [panic |-> TRUE, exit |-> TRUE, cell |-> c, skip |-> skip0]
    ELSE LET f == Find(Slice(c, skip0, Len(c)), TAB)
         IN  IF f = -1
             THEN [panic |-> FALSE, exit |-> TRUE, cell |-> c, skip |-> skip0]
             ELSE LET pos == skip0 + f
                      is_escaped == pos > 0 /\ Get(c, pos - 1, pos) = <<"Some", <<BACKSLASH>>>>
                      c1 == IF is_escaped THEN c
                            ELSE IF n = 0 THEN Remove(c, pos)
                            ELSE ReplaceRange(c, pos, Repeat(<<SPACE>>, n))
                      skip1 == IF is_escaped THEN pos
                               ELSE IF n = 0 THEN pos
                               ELSE pos + 1
                  IN  [panic |-> FALSE,
                       exit |-> (c1 = <<>> \/ skip1 >= Len(c1)),
                       cell |-> c1, skip |-> skip1]

\* One evaluation of the `while let` of replace_tab_range with the body it
\* guards.  exit: the loop is left (find gave None, or the break); panic: an
\* index was out of range or off a char boundary.
TabIter(c, n, skip0) ==
    IF ~(skip0 <= Len(c) /\ IsCharBoundary(c, skip0))
    THEN [panic |-> TRUE, exit |-> TRUE, cell |-> c, skip |-> skip0]
    ELSE LET f == Find(Slice(c, skip0, Len(c)), TAB)
         IN  IF f = -1
             THEN [panic |-> FALSE, exit |-> TRUE, cell |-> c, skip |-> skip0]
             ELSE LET pos == skip0 + f
                      is_escaped == pos > 0 /\ Get(c, pos - 1, pos) = <<"Some", <<BACKSLASH>>>>
                      c1 == IF is_escaped THEN c
                            ELSE IF n = 0 THEN Remove(c, pos)
                            ELSE ReplaceRange(c, pos, Repeat(<<SPACE>>, n))
                      skip1 == IF is_escaped THEN pos + 1
                               ELSE IF n = 0 THEN pos
                               ELSE pos + 1
                  IN  [panic |-> FALSE,
                       exit |-> (c1 = <<>> \/ skip1 >= Len(c1)),
                       cell |-> c1, skip |-> skip1]

\* replace_tab, n == 4
ReplaceTabFast ==
    /\ pc = "idle"
    /\ \E s \in Texts, n \in 0..MaxNum :
           /\ n = 4
           /\ text' = s /\ num' = n
           /\ out' = ReplaceAll(s, TAB, Repeat(<<SPACE>>, 4))
    /\ pc' = "tab_done"
    /\ UNCHANGED <<it, length, i, ret, cell, skip, outn, outw>>
    /\ UNCHANGED lines
    /\ UNCHANGED styleVars

\* replace_tab, n != 4: text.to_owned() and the call of replace_tab_range
ReplaceTabStart ==
    /\ pc = "idle"
    /\ \E s \in Texts, n \in 0..MaxNum :
           /\ n # 4
           /\ text' = s /\ num' = n
           /\ cell' = s
    /\ skip' = 0
    /\ pc' = "tab_loop"
    /\ UNCHANGED <<it, length, i, ret, out, outn, outw>>
    /\ UNCHANGED lines
    /\ UNCHANGED styleVars

TabLoop ==
    /\ pc = "tab_loop"
    /\ LET r == TabIter(cell, num, skip)
       IN  /\ cell' = r.cell
           /\ skip' = r.skip
           /\ pc' = IF r.panic THEN "tab_panic" ELSE IF r.exit THEN "tab_done" ELSE "tab_loop"
           /\ out' = IF r.exit /\ ~r.panic THEN r.cell ELSE out
    /\ UNCHANGED <<text, num, it, length, i, ret, outn, outw>>
    /\ UNCHANGED lines
    /\ UNCHANGED styleVars

\* a caller measures both ways: string_width_tab of the text, and string_width
\* of the text replace_tab returned
Measure ==
    /\ pc = "tab_done"
    /\ outn' = string_width_tab(text, num)
    /\ outw' = string_width(out)
    /\ pc' = "measured"
    /\ UNCHANGED <<text, num, it, length, i, ret, cell, skip, out>>
    /\ UNCHANGED lines
    /\ UNCHANGED styleVars

(***************************************************************************)
(* Style, Line and the rendering of a grid's horizontal lines.             *)
(* An Option is a sequence: <<>> is None, <<x>> is Some(x).                *)
(***************************************************************************)
\* Line: the fill glyph, the glyph where it meets an inner vertical, and the
\* glyphs at its two ends ("" where the style has no left or right frame)
Line(main, intersection, left, right) ==
    [main |-> main, intersection |-> intersection, left |-> left, right |-> right]

\* Style::ascii() as default_style renders it
ascii ==
    [top |-> <<Line("-", "+", "+", "+")>>, header |-> <<Line("-", "+", "+", "+")>>,
     split |-> <<Line("-", "+", "+", "+")>>, bottom |-> <<Line("-", "+", "+", "+")>>,
     left |-> "|", right |-> "|", inner |-> "|"]

\* Style::psql() as psql_style renders it
psql ==
    [top |-> <<>>, header |-> <<Line("-", "+", "", "")>>, split |-> <<>>, bottom |-> <<>>,
     left |-> "", right |-> "", inner |-> "|"]

\* Style::pseudo_clean() as pseudo_clean_style renders it
pseudo_clean ==
    [top |-> <<Line("h", "tj", "tl", "tr")>>, header |-> <<Line("h", "x", "lj", "rj")>>,
     split |-> <<>>, bottom |-> <<Line("h", "bj", "bl", "br")>>,
     left |-> "v", right |-> "v", inner |-> "v"]

\* Style::noborder() as noborder_style renders it
noborder ==
    [top |-> <<>>, header |-> <<>>, split |-> <<>>, bottom |-> <<>>,
     left |-> "", right |-> "", inner |-> " "]

Presets == {ascii, psql, pseudo_clean, noborder}

\* the Lines a setter is handed: None, or a Line::short as in custom_style
SetterArgs == {<<>>, <<Line("*", "'", "", "")>>}

\* one output line of a two-column grid drawn for segment seg with Line l
RuleLine(seg, l) ==
    [seg |-> seg, text |-> <<l.left, l.main, l.intersection, l.main, l.right>>]

\* the output line of grid row r (0 is the header row)
RowLine(st, r) ==
    [seg |-> "row", text |-> <<st.left, <<r, 0>>, st.inner, <<r, 1>>, st.right>>]

\* the output line of an optional Line, if any
Rule(seg, opt) == IF opt = <<>> THEN <<>> ELSE <<RuleLine(seg, opt[1])>>

RECURSIVE BodyLines(_, _, _)
\* data rows r..n, the split Line between each two of them
BodyLines(st, r, n) ==
    IF r > n THEN <<>>
    ELSE <<RowLine(st, r)>>
         \o (IF r < n THEN Rule("split", st.split) ELSE <<>>)
         \o BodyLines(st, r + 1, n)

\* Render with the header separator drawn only under a top frame
Render_HeaderNeedsTop(st, n) ==
    Rule("top", st.top)
    \o <<RowLine(st, 0)>>
    \o (IF st.top = <<>> THEN <<>> ELSE Rule("header", st.header))
    \o BodyLines(st, 1, n)
    \o Rule("bottom", st.bottom)

\* the table of a header row and n data rows, top to bottom
Render(st, n) ==
    Rule("top", st.top)
    \o <<RowLine(st, 0)>>
    \o Rule("header", st.header)
    \o BodyLines(st, 1, n)
    \o Rule("bottom", st.bottom)

\* Table::new(&data).with(preset): a preset style is taken
UseStyle ==
    \E st \in Presets :
        /\ style' = st
        /\ lastOp' = <<"with">>
        /\ before' = rendered
        /\ rendered' = Render(st, rows)
        /\ UNCHANGED rows
        /\ UNCHANGED strVars

\* Style::header(line)
Header ==
    \E l \in SetterArgs :
        /\ style' = [style EXCEPT !.header = l]
        /\ lastOp' = <<"header", l>>
        /\ before' = rendered
        /\ rendered' = Render(style', rows)
        /\ UNCHANGED rows
        /\ UNCHANGED strVars

\* Style::frame_top(line)
FrameTop ==
    \E l \in SetterArgs :
        /\ style' = [style EXCEPT !.top = l]
        /\ lastOp' = <<"frame_top", l>>
        /\ before' = rendered
        /\ rendered' = Render(style', rows)
        /\ UNCHANGED rows
        /\ UNCHANGED strVars

\* Style::frame_bottom(line)
FrameBottom ==
    \E l \in SetterArgs :
        /\ style' = [style EXCEPT !.bottom = l]
        /\ lastOp' = <<"frame_bottom", l>>
        /\ before' = rendered
        /\ rendered' = Render(style', rows)
        /\ UNCHANGED rows
        /\ UNCHANGED strVars

\* Style::split(line)
Split ==
    \E l \in SetterArgs :
        /\ style' = [style EXCEPT !.split = l]
        /\ lastOp' = <<"split", l>>
        /\ before' = rendered
        /\ rendered' = Render(style', rows)
        /\ UNCHANGED rows
        /\ UNCHANGED strVars

(***************************************************************************)
(* The specification of the string utilities.                              *)
(***************************************************************************)
\* no table is being rendered
StyleIdle ==
    /\ style = ascii
    /\ rows = 1
    /\ lastOp = <<>>
    /\ before = <<>>
    /\ rendered = <<>>

\* no string operation has been called
StrIdle ==
    /\ text = <<>>
    /\ num = 0
    /\ pc = "idle"
    /\ it = 0 /\ length = 0 /\ i = 0
    /\ ret = <<>>
    /\ cell = <<>>
    /\ skip = 0
    /\ out = <<>>
    /\ outn = 0
    /\ outw = 0
    /\ lines = <<>>

Init ==
    /\ StrIdle
    /\ StyleIdle

Next ==
    \/ CutStart
    \/ SplitLoop
    \/ CutFinish
    \/ CountLines
    \/ GetLines
    \/ ReplaceTabFast
    \/ ReplaceTabStart
    \/ TabLoop
    \/ Measure

Spec == Init /\ [][Next]_vars

(***************************************************************************)
(* The specification of the style composition: a grid of a header row and  *)
(* 1..MaxRows data rows, rendered with the default style, then restyled.   *)
(***************************************************************************)
InitStyle ==
    /\ StrIdle
    /\ rows \in 1..MaxRows
    /\ style = ascii
    /\ lastOp = <<>>
    /\ before = <<>>
    /\ rendered = Render(ascii, rows)

NextStyle ==
    \/ UseStyle
    \/ Header
    \/ FrameTop
    \/ FrameBottom
    \/ Split

SpecStyle == InitStyle /\ [][NextStyle]_vars


(***************************************************************************)
(* Properties of cut_str.                                                  *)
(***************************************************************************)
\* C1: for every text s and width w <= string_width(s), the text cut_str(s, w)
\* returns is exactly w columns wide, a U+FFFD placeholder counting one column.
C1_CutWidthExact ==
    (pc = "cut_done" /\ num <= string_width(text)) => string_width(out) = num

\* a wide glyph was cut in half and a placeholder fills the column left
C1_Witness ==
    /\ pc = "cut_done"
    /\ num <= string_width(text)
    /\ ret[2] = 1
    /\ string_width(out) = num

RECURSIVE DropTrailingZeroWidth(_)
\* the chars cs without the zero-width chars they end in
DropTrailingZeroWidth(cs) ==
    IF cs = <<>> THEN <<>>
    ELSE IF CharWidth(cs[Len(cs)]) = 0 THEN DropTrailingZeroWidth(SubSeq(cs, 1, Len(cs) - 1))
    ELSE cs

\* C2 as claimed: for every w >= string_width(s), cut_str(s, w) == s.
C2_Original ==
    (pc = "cut_done" /\ num >= string_width(text)) => out = text

\* C2 amended: for every w > string_width(s), cut_str(s, w) == s; for
\* w == string_width(s), cut_str(s, w) is s without the zero-width chars s ends
\* in.  No placeholder is added in either case.
C2_CutKeepsShortText ==
    (pc = "cut_done" /\ num >= string_width(text)) =>
        /\ ret[2] = 0
        /\ num > string_width(text) => out = text
        /\ num = string_width(text) => out = Concat(DropTrailingZeroWidth(Chars(text)))

\* the width is exactly that of the text, and the zero-width chars at its end are gone
C2_Witness ==
    /\ pc = "cut_done"
    /\ num = string_width(text)
    /\ num > 0
    /\ out # text
    /\ out = Concat(DropTrailingZeroWidth(Chars(text)))

\* C3: cut_str(s, w) is a prefix P of s made of whole chars, of width i <= w,
\* followed by k placeholders; when the char after P would push the width past
\* w, k == w - i, and otherwise k == 0.
C3_CutForm ==
    pc = "cut_done" =>
        \E p \in 0..Len(text), k \in 0..num :
            LET P == Slice(text, 0, p)
                w_P == string_width(P)
            IN  /\ IsCharBoundary(text, p)
                /\ out = P \o Repeat(REPLACEMENT, k)
                /\ w_P <= num
                /\ IF p < Len(text) /\ w_P + CharWidth(CharAt(text, p)) > num
                   THEN k = num - w_P
                   ELSE k = 0

\* a two-column glyph met with one column of budget left: one placeholder
C3_Witness ==
    /\ pc = "cut_done"
    /\ ret[1] < Len(text)
    /\ CharAt(text, ret[1]) = WIDE
    /\ string_width(Slice(text, 0, ret[1])) = num - 1
    /\ out = Slice(text, 0, ret[1]) \o REPLACEMENT

\* C8: cut_str never panics: in string_split_at_length i <= width throughout,
\* and the length returned is at most s.len() and on a char boundary of s.
C8_CutNeverPanics ==
    /\ pc # "cut_panic"
    /\ pc \in {"split", "split_ret", "cut_done"} => i <= num
    /\ pc \in {"split_ret", "cut_done"} =>
           /\ ret[1] <= Len(text)
           /\ IsCharBoundary(text, ret[1])
           /\ ret[2] >= 0

\* a multi-byte char was kept and `width - i` was computed for the next one
C8_Witness ==
    /\ pc = "cut_done"
    /\ ret[1] >= 4
    /\ ret[1] < Len(text)
    /\ i < num
    /\ ret[2] = num - i

(***************************************************************************)
(* Properties of replace_tab, string_width_tab and count_lines.            *)
(***************************************************************************)
\* the text s with every tab that no backslash precedes replaced by n spaces
ExpandUnescaped(s, n) ==
    LET cs == Chars(s)
    IN  Concat([k \in 1..Len(cs) |->
            IF cs[k] = <<TAB>> /\ ~(k > 1 /\ cs[k - 1] = <<BACKSLASH>>)
            THEN Repeat(<<SPACE>>, n)
            ELSE cs[k]])

\* C4: for every text and every n (n == 4 too), replace_tab(text, n) is text
\* with each tab that no backslash immediately precedes replaced by n spaces,
\* and every other char, the escaped tabs among them, left as it was.
C4_Original ==
    pc = "tab_done" => out = ExpandUnescaped(text, num)

\* C5: for every text s and tab width n,
\* string_width_tab(s, n) == string_width(replace_tab(s, n)).
C5_Original ==
    pc = "measured" => outn = outw

\* the number of '\n' chars of s
NewlineChars(s) ==
    LET cs == Chars(s) IN Cardinality({k \in 1..Len(cs) : cs[k] = <<NEWLINE>>})

\* C6: count_lines(s) is the number of '\n' chars of s plus one; count_lines("")
\* is 1 and count_lines("a\nb\n") is 3.
C6_CountLines ==
    /\ pc = "count_done" => outn = NewlineChars(text) + 1
    /\ count_lines(<<>>) = 1
    /\ count_lines(<<97, 10, 98, 10>>) = 3

\* a text ending in a line break: the empty segment after it is counted
C6_Witness ==
    /\ pc = "count_done"
    /\ text = <<NEWLINE, LETTER, NEWLINE>>
    /\ outn = 3

\* C11: for every text s, get_lines(s) yields as many segments as
\* count_lines(s) says: one for the empty text, and the empty segment after a
\* final line break counted by both.
C11_LinesMatchCount ==
    /\ pc = "lines_done" => Len(lines) = outn
    /\ Len(get_lines(<<>>)) = 1
    /\ count_lines(<<>>) = Len(get_lines(<<>>))

\* a text ending in a line break: the last segment yielded is the empty one
C11_Witness ==
    /\ pc = "lines_done"
    /\ text # <<>>
    /\ text[Len(text)] = NEWLINE
    /\ lines[Len(lines)] = <<>>
    /\ outn >= 2
    /\ Len(lines) = outn

\* C9: at the start of every iteration of replace_tab_range's loop, skip is at
\* most cell.len() and on a char boundary of the cell as edited so far; no
\* index of the loop is out of range.
C9_SkipInRange ==
    /\ pc # "tab_panic"
    /\ pc = "tab_loop" => skip <= Len(cell) /\ IsCharBoundary(cell, skip)

\* the loop goes on after a tab was removed in front of a multi-byte char
C9_Witness ==
    /\ pc = "tab_loop"
    /\ num = 0
    /\ Len(cell) < Len(text)
    /\ skip < Len(cell)
    /\ cell[skip + 1] > 127

\* the tabs of c at or after offset k
TabsFrom(c, k) == ByteCount(Slice(c, k, Len(c)), TAB)

\* C10: replace_tab terminates: every iteration of replace_tab_range's loop
\* either leaves the loop or leaves strictly fewer tabs at or after skip, a
\* number that is never negative; so the loop is left after at most as many
\* iterations as the text has tabs.
C10_TabTerminates ==
    [][pc = "tab_loop" =>
        \/ pc' = "tab_done"
        \/ /\ pc' = "tab_loop"
           /\ TabsFrom(cell', skip') < TabsFrom(cell, skip)
           /\ TabsFrom(cell', skip') >= 0]_vars

\* the loop was left after removing two tabs
C10_Witness ==
    /\ pc = "tab_done"
    /\ num = 0
    /\ count_tabs(text) >= 2
    /\ count_tabs(out) = 0

(***************************************************************************)
(* Properties of the style composition.                                    *)
(***************************************************************************)
\* the output lines of table that were not drawn for segment seg
Without(table, seg) == SelectSeq(table, LAMBDA ln : ln.seg # seg)

\* the number of output lines of table drawn for segment seg
Drawn(table, seg) == Len(table) - Len(Without(table, seg))

=============================================================================
